---- MODULE Spec2Model ----
(***************************************************************************)
(* Model of graph/src/util/futures.rs: the staged retry configuration     *)
(* (retry, RetryConfig, RetryConfigWithTimeout, RetryConfigNoTimeout),     *)
(* the retry driver run_retry on top of tokio_retry's Retry::spawn, the    *)
(* backoff strategy retry_strategy, RetryIf::check and                     *)
(* RetryConfigProperty.                                                    *)
(*                                                                         *)
(* One retry session is modelled.  The caller's program is the sequence    *)
(* of builder calls, ended by run(try_it); after that the driver moves     *)
(* between an attempt in flight ("attempt") and a backoff delay ("delay")  *)
(* until it returns a result ("done") or panics ("panicked").              *)
(***************************************************************************)
EXTENDS Integers, Sequences, FiniteSets, TLC

(***************************************************************************)
(* Bounds of the model.                                                    *)
(***************************************************************************)
\* The largest number of factory invocations explored in one session.
MaxAttempts == 4
\* limit(n) is called with n in 0..MaxLimit.
MaxLimit == 3
\* log_after(n) is called with n in 1..MaxLogAfter.
MaxLogAfter == 2
\* The custom predicate "ok_below" retries while the success value is below
\* this threshold (10 in tests::custom_when).
Threshold == 3
\* The random factors of jitter are the multiples of 1 / JitterSteps.
JitterSteps == 2
\* The largest number of delays taken from a backoff iterator on its own.
MaxDelays == 17
MaxNotReady == 3
MaxValue == 2

(***************************************************************************)
(* Machine integers.  TLC's integers are 32 bits wide, so the two 64-bit   *)
(* maxima the code uses are represented by the largest TLC integer; the    *)
(* model only compares against them and counts down from them, and never   *)
(* reaches them by counting up.                                            *)
(***************************************************************************)
\* u64::max_value(), the threshold no_logging() stores.
U64_MAX == 2147483647
\* usize::MAX, what `limit - 1` wraps to for limit = 0 without overflow checks.
USIZE_MAX == 2147483647

(***************************************************************************)
(* Panic messages of the code.                                             *)
(***************************************************************************)
MsgConfiguredOnce == "Retry config properties must be configured only once"
MsgMustHaveLimit == "Retry helper must have limit parameter configured"
MsgTimerError == "tokio timer error"
MsgUnwrapNone == "called Option::unwrap() on a None value"
MsgSubOverflow == "attempt to subtract with overflow"

(***************************************************************************)
(* enum RetryConfigProperty<V> { Set(V), Clear, Unknown }                  *)
(***************************************************************************)
Unknown == [tag |-> "Unknown", v |-> 0]
Clear == [tag |-> "Clear", v |-> 0]
Set(v) == [tag |-> "Set", v |-> v]

\* Option<V>
None == [some |-> FALSE, v |-> 0]
Some(v) == [some |-> TRUE, v |-> v]

\* A mutant of set: a second call that agrees with the first is accepted.
set_agreeing(self, v) ==
    IF self # Unknown /\ self # Set(v)
    THEN [panic |-> TRUE, prop |-> self]
    ELSE [panic |-> FALSE, prop |-> Set(v)]

\* RetryConfigProperty::set: panics unless the property is Unknown.
set(self, v) ==
    IF self # Unknown
    THEN [panic |-> TRUE, prop |-> self]
    ELSE [panic |-> FALSE, prop |-> Set(v)]

\* RetryConfigProperty::clear: panics unless the property is Unknown.
clear(self) ==
    IF self # Unknown
    THEN [panic |-> TRUE, prop |-> self]
    ELSE [panic |-> FALSE, prop |-> Clear]

\* A mutant of unwrap: an undecided property is read as "no limit".
unwrap_lenient(self) ==
    IF self.tag = "Set"
    THEN [panic |-> FALSE, opt |-> Some(self.v)]
    ELSE [panic |-> FALSE, opt |-> None]

\* RetryConfigProperty::unwrap: Set(v) -> Some(v), Clear -> None,
\* Unknown -> panic.
unwrap(self) ==
    CASE self.tag = "Set" -> [panic |-> FALSE, opt |-> Some(self.v)]
      [] self.tag = "Clear" -> [panic |-> FALSE, opt |-> None]
      [] OTHER -> [panic |-> TRUE, opt |-> None]

(***************************************************************************)
(* Results.  Result<I, timeout::Error<E>> is Ok(v), Err(inner(e)),         *)
(* Err(elapsed) or Err(timer); Result<I, E> is Ok(v) or Err(e).            *)
(***************************************************************************)
NoResult == [tag |-> "NoResult", v |-> 0]
Ok(v) == [tag |-> "Ok", v |-> v]
Err(e) == [tag |-> "Err", v |-> e]
ErrInner(e) == [tag |-> "ErrInner", v |-> e]
ErrElapsed == [tag |-> "ErrElapsed", v |-> 0]
ErrTimer == [tag |-> "ErrTimer", v |-> 0]
Panic == [tag |-> "Panic", v |-> 0]

\* result.map_err(timeout::Error::inner)
map_err_inner(r) == IF r.tag = "Err" THEN ErrInner(r.v) ELSE r

\* result.map_err(|e| e.into_inner().unwrap()): into_inner() is None for an
\* elapsed or a timer error, and unwrap() then panics.
map_err_into_inner_unwrap(r) ==
    CASE r.tag = "ErrInner" -> Err(r.v)
      [] r.tag \in {"ErrElapsed", "ErrTimer"} -> Panic
      [] OTHER -> r

(***************************************************************************)
(* enum RetryIf { Error, Predicate(..) } and the predicates when() is      *)
(* called with.                                                            *)
(***************************************************************************)
\* "ok_below": retry while the attempt succeeded with a value below
\* Threshold; "never": never retry.
Predicates == {"ok_below", "never"}

predicate(p, result) ==
    CASE p = "ok_below" -> result.tag = "Ok" /\ result.v < Threshold
      [] p = "never" -> FALSE
      [] OTHER -> FALSE

\* A mutant of check: the default condition retries on Ok instead of Err.
check_inverted(condition, result) ==
    IF condition = "Error" THEN result.tag = "Ok" ELSE predicate(condition, result)

\* A mutant of check: a custom predicate is ignored.
check_error_only(condition, result) == result.tag = "Err"

\* RetryIf::check
check(condition, result) ==
    IF condition = "Error" THEN result.tag = "Err" ELSE predicate(condition, result)

(***************************************************************************)
(* retry_strategy: the number of delays the backoff iterator yields.       *)
(***************************************************************************)
\* An endless iterator, and one that yields n more delays.
Endless == [bounded |-> FALSE, left |-> 0]
Take(n) == [bounded |-> TRUE, left |-> n]

\* `limit - 1` on usize: with overflow checks (debug builds) 0 - 1 panics,
\* without them (release builds) it wraps to usize::MAX.
usize_sub_one(n, overflow_checks) ==
    IF n >= 1 THEN [panic |-> FALSE, v |-> n - 1]
    ELSE IF overflow_checks THEN [panic |-> TRUE, v |-> 0]
    ELSE [panic |-> FALSE, v |-> USIZE_MAX]

\* A mutant of retry_strategy: the limit is used as the number of delays.
retry_strategy_off_by_one(limit_opt, overflow_checks) ==
    IF limit_opt.some
    THEN [panic |-> FALSE, it |-> Take(limit_opt.v)]
    ELSE [panic |-> FALSE, it |-> Endless]

\* retry_strategy: Some(limit) -> backoff.take(limit - 1), None -> backoff.
retry_strategy(limit_opt, overflow_checks) ==
    IF limit_opt.some
    THEN LET n == usize_sub_one(limit_opt.v, overflow_checks)
         IN  [panic |-> n.panic, it |-> Take(n.v)]
    ELSE [panic |-> FALSE, it |-> Endless]

\* Iterator::next on the strategy: has_next and the iterator after it.
has_next(it) == ~it.bounded \/ it.left > 0
next_it(it) == IF it.bounded THEN Take(it.left - 1) ELSE it

(***************************************************************************)
(* The delays: ExponentialBackoff::from_millis(2)                          *)
(*     .max_delay(Duration::from_millis(max_delay_ms)).map(jitter)         *)
(***************************************************************************)
\* from_millis(2): the base, which is also the first delay, in ms.
backoff_base_ms == 2
max_delay_ms == 30000

\* 2^k
RECURSIVE Pow2(_)
Pow2(k) == IF k = 0 THEN 1 ELSE 2 * Pow2(k - 1)

\* A mutant of exponential_backoff_next: max_delay is not applied.
exponential_backoff_next_uncapped(current) ==
    [duration |-> current, current |-> current * backoff_base_ms]

\* ExponentialBackoff::next: the delay is current (the factor is 1),
\* replaced by max_delay once it is over it; current is multiplied by the
\* base unless the maximum was returned.
exponential_backoff_next(current) ==
    IF current > max_delay_ms
    THEN [duration |-> max_delay_ms, current |-> current]
    ELSE [duration |-> current, current |-> current * backoff_base_ms]

\* jitter(duration) is duration * random::<f64>(), the random factor in
\* [0, 1), rounded up: the factors k / JitterSteps, k < JitterSteps, and a
\* factor so close to 1 that rounding up gives the duration itself.
jitter(duration) ==
    {(duration * k + JitterSteps - 1) \div JitterSteps : k \in 0..JitterSteps}

\* The delay Retry sleeps on: what the backoff yielded and what jitter made
\* of it; NoDelay while it does not sleep.
NoDelay == [sleeping |-> FALSE, duration |-> 0, ms |-> 0]
Delay(duration, ms) == [sleeping |-> TRUE, duration |-> duration, ms |-> ms]

(***************************************************************************)
(* The operation factory try_it.  As in the tests it counts its            *)
(* invocations in c; its k-th future ends Ok(k) ("ok"), ends Err(k)        *)
(* ("err"), or does not become ready ("pending").                          *)
(***************************************************************************)
Kinds == {"ok", "err", "pending"}
Factories == [1..MaxAttempts -> Kinds]

\* Durations (in ms) the timeout stage is entered with.
TimeoutSecsInputs == {1}
TimeoutMillisInputs == {1000}
TimeoutInputs == {1000}
from_secs(n) == n * 1000
from_millis(n) == n

NoDuration == [some |-> FALSE, ms |-> 0]
Duration(ms) == [some |-> TRUE, ms |-> ms]

\* A mutant of try_it_with_timeout: an attempt may be reported as elapsed
\* although no timeout is configured.
try_it_with_timeout_always_timed(timeout, kind, k) ==
    (CASE kind = "ok" -> {Ok(k)}
       [] kind = "err" -> {ErrInner(k)}
       [] OTHER -> {})
    \cup {ErrElapsed}

\* A mutant of try_it_with_timeout: the timeout is not applied, an attempt
\* resolves with the future's own outcome or not at all.
try_it_with_timeout_no_deadline(timeout, kind, k) ==
    CASE kind = "ok" -> {Ok(k)}
      [] kind = "err" -> {ErrInner(k)}
      [] OTHER -> {}

\* The outcomes one attempt can resolve with.  With a timeout
\* (try_it().timeout(timeout)): the future's own outcome, Err(elapsed) when
\* it is not ready by the deadline, or Err(timer) when the timer fails.
\* Without (try_it().map_err(timeout::Error::inner)): the future's own
\* outcome only; a future that never becomes ready never resolves.
try_it_with_timeout(timeout, kind, k) ==
    (CASE kind = "ok" -> {Ok(k)}
       [] kind = "err" -> {ErrInner(k)}
       [] OTHER -> IF timeout.some THEN {ErrElapsed} ELSE {})
    \cup (IF timeout.some THEN {ErrTimer} ELSE {})

(***************************************************************************)
(* The closure run_retry chains on every attempt                           *)
(* (try_it_with_timeout().then(..)): Ok(r) ends the retry loop, Err(r)     *)
(* asks for another attempt, and a timer error panics.                     *)
(***************************************************************************)
LogLine(msg, attempt) == [level |-> "debug", msg |-> msg, attempt |-> attempt]
TraceLine == [level |-> "trace", msg |-> "Run with retry", attempt |-> 0]

\* A mutant of the closure: a timed-out attempt is put to the retry
\* condition like any other error.
attempt_then_elapsed_checked(result_with_timeout, condition, count, log_after) ==
    IF result_with_timeout.tag = "ErrTimer"
    THEN [ctl |-> "panic", r |-> NoResult, lines |-> << >>, checked |-> FALSE]
    ELSE IF check(condition, IF result_with_timeout.tag = "Ok"
                             THEN result_with_timeout ELSE Err(result_with_timeout.v))
    THEN [ctl |-> "Err", r |-> result_with_timeout, lines |-> << >>,
          checked |-> TRUE]
    ELSE [ctl |-> "Ok", r |-> result_with_timeout, lines |-> << >>,
          checked |-> TRUE]

\* A mutant of the closure: a timer error is handed to Retry as one more
\* error to retry.
attempt_then_timer_retried(result_with_timeout, condition, count, log_after) ==
    IF result_with_timeout.tag \in {"ErrElapsed", "ErrTimer"}
    THEN [ctl |-> "Err", r |-> result_with_timeout,
          lines |-> IF count >= log_after
                    THEN <<LogLine("timed out", count)>> ELSE << >>,
          checked |-> FALSE]
    ELSE LET result == map_err_into_inner_unwrap(result_with_timeout)
         IN  IF check(condition, result)
             THEN [ctl |-> "Err", r |-> map_err_inner(result),
                   lines |-> IF count >= log_after
                             THEN <<LogLine("failed", count)>> ELSE << >>,
                   checked |-> TRUE]
             ELSE [ctl |-> "Ok", r |-> map_err_inner(result),
                   lines |-> << >>, checked |-> TRUE]

\* A mutant of the closure: the retry lines are logged whatever the attempt
\* count is.
attempt_then_logs_always(result_with_timeout, condition, count, log_after) ==
    IF result_with_timeout.tag = "ErrElapsed"
    THEN [ctl |-> "Err", r |-> result_with_timeout,
          lines |-> <<LogLine("timed out", count)>>, checked |-> FALSE]
    ELSE IF result_with_timeout.tag = "ErrTimer"
    THEN [ctl |-> "panic", r |-> NoResult, lines |-> << >>, checked |-> FALSE]
    ELSE LET result == map_err_into_inner_unwrap(result_with_timeout)
         IN  IF check(condition, result)
             THEN [ctl |-> "Err", r |-> map_err_inner(result),
                   lines |-> <<LogLine("failed", count)>>, checked |-> TRUE]
             ELSE [ctl |-> "Ok", r |-> map_err_inner(result),
                   lines |-> << >>, checked |-> TRUE]

\* A mutant of the closure: an attempt the condition wants retried is handed
\* to Retry as a deadline-exceeded error instead of its own result.
attempt_then_retry_not_own(result_with_timeout, condition, count, log_after) ==
    IF result_with_timeout.tag = "ErrTimer"
    THEN [ctl |-> "panic", r |-> NoResult, lines |-> << >>, checked |-> FALSE]
    ELSE IF result_with_timeout.tag = "ErrElapsed"
            \/ check(condition, map_err_into_inner_unwrap(result_with_timeout))
    THEN [ctl |-> "Err", r |-> ErrElapsed,
          lines |-> IF count < log_after THEN << >>
                    ELSE IF result_with_timeout.tag = "ErrElapsed"
                    THEN <<LogLine("timed out", count)>>
                    ELSE <<LogLine("failed", count)>>,
          checked |-> result_with_timeout.tag # "ErrElapsed"]
    ELSE [ctl |-> "Ok", r |-> result_with_timeout, lines |-> << >>,
          checked |-> TRUE]

\* A mutant of the closure: a successful attempt ends the loop without the
\* retry condition being asked.
attempt_then_ok_unchecked(result_with_timeout, condition, count, log_after) ==
    IF result_with_timeout.tag = "ErrTimer"
    THEN [ctl |-> "panic", r |-> NoResult, lines |-> << >>, checked |-> FALSE]
    ELSE IF result_with_timeout.tag = "Ok"
    THEN [ctl |-> "Ok", r |-> result_with_timeout, lines |-> << >>,
          checked |-> FALSE]
    ELSE IF result_with_timeout.tag = "ErrElapsed"
            \/ check(condition, map_err_into_inner_unwrap(result_with_timeout))
    THEN [ctl |-> "Err", r |-> result_with_timeout,
          lines |-> IF count < log_after THEN << >>
                    ELSE IF result_with_timeout.tag = "ErrElapsed"
                    THEN <<LogLine("timed out", count)>>
                    ELSE <<LogLine("failed", count)>>,
          checked |-> result_with_timeout.tag # "ErrElapsed"]
    ELSE [ctl |-> "Ok", r |-> result_with_timeout, lines |-> << >>,
          checked |-> TRUE]

\* The closure itself: elapsed -> Err (retry), timer error -> panic,
\* otherwise the retry condition decides between Err (retry) and Ok (stop).
\* lines are the debug lines it logs, checked whether it called
\* condition.check.
attempt_then(result_with_timeout, condition, count, log_after) ==
    LET is_elapsed == result_with_timeout.tag = "ErrElapsed"
        is_timer_err == result_with_timeout.tag = "ErrTimer"
    IN  IF is_elapsed
        THEN [ctl |-> "Err", r |-> result_with_timeout,
              lines |-> IF count >= log_after
                        THEN <<LogLine("timed out", count)>> ELSE << >>,
              checked |-> FALSE]
        ELSE IF is_timer_err
        THEN [ctl |-> "panic", r |-> NoResult, lines |-> << >>,
              checked |-> FALSE]
        ELSE LET result == map_err_into_inner_unwrap(result_with_timeout)
             IN  IF check(condition, result)
                 THEN [ctl |-> "Err", r |-> map_err_inner(result),
                       lines |-> IF count >= log_after
                                 THEN <<LogLine("failed", count)>> ELSE << >>,
                       checked |-> TRUE]
                 ELSE [ctl |-> "Ok", r |-> map_err_inner(result),
                       lines |-> << >>, checked |-> TRUE]

(***************************************************************************)
(* blocking(f): futures, polls and tokio_threadpool::blocking.             *)
(***************************************************************************)
MsgNotInPool == "not inside a tokio thread pool"

\* Async::NotReady, Async::Ready(x), and the Err(BlockingError) of
\* tokio_threadpool::blocking.
NotReady == [tag |-> "NotReady", v |-> 0]
Ready(x) == [tag |-> "Ready", v |-> x]
BlockingError == [tag |-> "BlockingError", v |-> 0]

\* The futures handed to blocking(): not ready for the first not_ready
\* polls, then resolved with outcome, a value or an error.
NoFuture == [not_ready |-> 0, outcome |-> NoResult]
Futures ==
    {[not_ready |-> n, outcome |-> o] :
        n \in 0..MaxNotReady,
        o \in {Ok(v) : v \in 1..MaxValue} \cup {Err(e) : e \in 1..MaxValue}}

\* f.poll(), the n-th poll counted from 0: a Poll<T, E>.
f_poll(fut, n) ==
    IF n < fut.not_ready THEN Ok(NotReady)
    ELSE IF fut.outcome.tag = "Ok" THEN Ok(Ready(fut.outcome.v))
    ELSE fut.outcome

\* tokio_threadpool::blocking(closure): Err outside a thread pool worker,
\* Ok(NotReady) when the pool has no blocking capacity left, and otherwise
\* the closure is run and its result is Ok(Ready(result)).
tokio_threadpool_blocking(in_pool, capacity, closure) ==
    IF ~in_pool THEN BlockingError
    ELSE IF ~capacity THEN Ok(NotReady)
    ELSE Ok(Ready(closure))

\* A mutant of blocking_match: an error of f is handed on as a value.
blocking_match_err_as_value(b) ==
    IF b.tag = "BlockingError" THEN Panic
    ELSE IF b.v.tag = "NotReady" THEN Ok(NotReady)
    ELSE LET r == b.v.v
         IN  IF r.tag = "Err" THEN Ok(Ready(r.v))
             ELSE IF r.v.tag = "NotReady" THEN Ok(NotReady)
             ELSE Ok(Ready(r.v.v))

\* The match of the closure blocking() gives to future::poll_fn.
blocking_match(b) ==
    IF b.tag = "BlockingError" THEN Panic
    ELSE IF b.v.tag = "NotReady" THEN Ok(NotReady)
    ELSE LET r == b.v.v
         IN  IF r.tag = "Err" THEN Err(r.v)
             ELSE IF r.v.tag = "NotReady" THEN Ok(NotReady)
             ELSE Ok(Ready(r.v.v))

(***************************************************************************)
(* State.                                                                  *)
(***************************************************************************)
VARIABLES
    pc,              \* where the caller or the driver is: "RetryConfig",
                     \* "RetryConfigWithTimeout", "RetryConfigNoTimeout" (the
                     \* builder stage held), "attempt", "delay", "done",
                     \* "panicked"
    config,          \* the RetryConfig: condition, log_after, limit
    timeout,         \* RetryConfigWithTimeout.timeout, NoDuration before
    try_it,          \* the factory handed to run
    c,               \* the factory's own invocation counter
    attempt_count,   \* run_retry's attempt_count
    strategy,        \* the backoff iterator Retry::spawn consumes
    outcomes,        \* the outcome each attempt resolved with, in order
    result,          \* the result the session's future resolved with
    log,             \* the lines given to the logger, in order
    panic_msg,       \* the panic's message when pc = "panicked"
    limit_redecided, \* limit()/no_limit() was called on a decided limit
    log_decided,     \* log_after()/no_logging() was called
    log_redecided,   \* ... and was called again after that
    log_request,     \* the threshold the latest such call asked for
    timeout_decided, \* how many timeout decisions were made
    backoff,         \* ExponentialBackoff.current of the strategy, in ms
    delay,           \* the delay Retry sleeps on
    delays_taken,    \* how many delays the strategy has yielded
    checked,         \* the attempts condition.check was called for, in order
    f_inner,         \* the future handed to blocking(): what its polls give
    f_polls,         \* how often it was polled
    poll_fn,         \* the future blocking() returned: "none" before the
                     \* call, then "created", "not_ready", "ready",
                     \* "panicked"
    poll_result,     \* what the returned future resolved with
    called_in_pool,  \* blocking() was called on a thread pool worker
    blocking_panic,  \* the message of the panic a poll ended in
    pair             \* the driver state of two sessions run side by side

vars == <<pc, config, timeout, try_it, c, attempt_count, strategy, outcomes,
          result, log, panic_msg, limit_redecided, log_decided, log_redecided,
          log_request, timeout_decided, backoff, delay, delays_taken, checked,
          f_inner, f_polls, poll_fn, poll_result, called_in_pool,
          blocking_panic, pair>>

driver == <<try_it, c, attempt_count, strategy, outcomes, result, log>>
log_history == <<log_decided, log_redecided, log_request>>
history == <<limit_redecided, log_history, timeout_decided>>
sleep == <<backoff, delay, delays_taken>>
adapter == <<f_inner, f_polls, poll_fn, poll_result, called_in_pool,
             blocking_panic>>

session == <<pc, config, timeout, driver, panic_msg, history, sleep, checked>>

\* A session of the pair before run is called, and the sessions of the pair.
IdleSession ==
    [pc |-> "idle", limit |-> Unknown, c |-> 0, attempt_count |-> 0,
     strategy |-> Endless, backoff |-> backoff_base_ms, outcomes |-> << >>,
     result |-> NoResult]
Sessions == 1..2

\* blocking() has not been called.
AdapterIdle ==
    /\ f_inner = NoFuture
    /\ f_polls = 0
    /\ poll_fn = "none"
    /\ poll_result = NoResult
    /\ called_in_pool = FALSE
    /\ blocking_panic = ""

\* retry(operation_name, logger): condition RetryIf::Error, log_after 1,
\* limit Unknown.
retry ==
    [condition |-> "Error", log_after |-> 1, limit |-> Unknown]

Init ==
    /\ pc = "RetryConfig"
    /\ config = retry
    /\ timeout = NoDuration
    /\ try_it = << >>
    /\ c = 0
    /\ attempt_count = 0
    /\ strategy = Endless
    /\ outcomes = << >>
    /\ result = NoResult
    /\ log = << >>
    /\ panic_msg = ""
    /\ limit_redecided = FALSE
    /\ log_decided = FALSE
    /\ log_redecided = FALSE
    /\ log_request = 1
    /\ timeout_decided = 0
    /\ backoff = backoff_base_ms
    /\ delay = NoDelay
    /\ delays_taken = 0
    /\ checked = << >>
    /\ AdapterIdle
    /\ pair = [i \in Sessions |-> IdleSession]

\* panic!(msg): the session is over, nothing is returned.
PanicWith(msg) ==
    /\ pc' = "panicked"
    /\ panic_msg' = msg

(***************************************************************************)
(* RetryConfig: the builder calls.                                         *)
(***************************************************************************)
\* RetryConfig::when
when(p) ==
    /\ pc = "RetryConfig"
    /\ config' = [config EXCEPT !.condition = p]
    /\ UNCHANGED <<pc, timeout, driver, panic_msg, history,
                   sleep, checked, adapter, pair>>

\* A mutant of log_after: the threshold is a configure-once property.
log_after_once(min_attempts) ==
    /\ pc = "RetryConfig"
    /\ log_decided' = TRUE
    /\ log_redecided' = (log_redecided \/ log_decided)
    /\ log_request' = min_attempts
    /\ IF log_decided
       THEN PanicWith(MsgConfiguredOnce) /\ UNCHANGED config
       ELSE /\ config' = [config EXCEPT !.log_after = min_attempts]
            /\ UNCHANGED <<pc, panic_msg>>
    /\ UNCHANGED <<timeout, driver, limit_redecided, timeout_decided,
                   sleep, checked, adapter, pair>>

\* RetryConfig::log_after
log_after(min_attempts) ==
    /\ pc = "RetryConfig"
    /\ config' = [config EXCEPT !.log_after = min_attempts]
    /\ log_decided' = TRUE
    /\ log_redecided' = (log_redecided \/ log_decided)
    /\ log_request' = min_attempts
    /\ UNCHANGED <<pc, timeout, driver, panic_msg, limit_redecided,
                   timeout_decided,
                   sleep, checked, adapter, pair>>

\* RetryConfig::no_logging
no_logging ==
    /\ pc = "RetryConfig"
    /\ config' = [config EXCEPT !.log_after = U64_MAX]
    /\ log_decided' = TRUE
    /\ log_redecided' = (log_redecided \/ log_decided)
    /\ log_request' = U64_MAX
    /\ UNCHANGED <<pc, timeout, driver, panic_msg, limit_redecided,
                   timeout_decided,
                   sleep, checked, adapter, pair>>

\* RetryConfig::limit
limit(n) ==
    /\ pc = "RetryConfig"
    /\ limit_redecided' = (limit_redecided \/ config.limit # Unknown)
    /\ LET s == set(config.limit, n)
       IN  IF s.panic
           THEN PanicWith(MsgConfiguredOnce) /\ UNCHANGED config
           ELSE /\ config' = [config EXCEPT !.limit = s.prop]
                /\ UNCHANGED <<pc, panic_msg>>
    /\ UNCHANGED <<timeout, driver, log_history, timeout_decided,
                   sleep, checked, adapter, pair>>

\* RetryConfig::no_limit
no_limit ==
    /\ pc = "RetryConfig"
    /\ limit_redecided' = (limit_redecided \/ config.limit # Unknown)
    /\ LET s == clear(config.limit)
       IN  IF s.panic
           THEN PanicWith(MsgConfiguredOnce) /\ UNCHANGED config
           ELSE /\ config' = [config EXCEPT !.limit = s.prop]
                /\ UNCHANGED <<pc, panic_msg>>
    /\ UNCHANGED <<timeout, driver, log_history, timeout_decided,
                   sleep, checked, adapter, pair>>

\* RetryConfig::timeout: the configuration becomes a RetryConfigWithTimeout.
timeout_duration(ms) ==
    /\ pc = "RetryConfig"
    /\ pc' = "RetryConfigWithTimeout"
    /\ timeout' = Duration(ms)
    /\ timeout_decided' = timeout_decided + 1
    /\ UNCHANGED <<config, driver, panic_msg, limit_redecided, log_history,
                   sleep, checked, adapter, pair>>

\* RetryConfig::timeout_secs
timeout_secs(n) == timeout_duration(from_secs(n))

\* RetryConfig::timeout_millis
timeout_millis(n) == timeout_duration(from_millis(n))

\* RetryConfig::no_timeout: the configuration becomes a RetryConfigNoTimeout.
no_timeout ==
    /\ pc = "RetryConfig"
    /\ pc' = "RetryConfigNoTimeout"
    /\ timeout_decided' = timeout_decided + 1
    /\ UNCHANGED <<config, timeout, driver, panic_msg, limit_redecided,
                   log_history,
                   sleep, checked, adapter, pair>>

(***************************************************************************)
(* run and run_retry.                                                      *)
(***************************************************************************)
\* The factory is invoked for one more attempt: the closure given to
\* Retry::spawn increments attempt_count and calls try_it_with_timeout().
start_attempt ==
    /\ attempt_count' = attempt_count + 1
    /\ c' = c + 1
    /\ pc' = "attempt"

\* run_retry: Retry::spawn(retry_strategy(limit_opt), ..) builds the
\* strategy and runs the closure for the first attempt at once.
run_retry(limit_opt, f, overflow_checks) ==
    LET st == retry_strategy(limit_opt, overflow_checks)
    IN  IF st.panic
        THEN /\ PanicWith(MsgSubOverflow)
             /\ UNCHANGED <<try_it, c, attempt_count, strategy>>
        ELSE /\ strategy' = st.it
             /\ try_it' = f
             /\ start_attempt
             /\ UNCHANGED panic_msg

\* RetryConfigWithTimeout::run and RetryConfigNoTimeout::run up to the call
\* of run_retry: unwrap the limit, log at trace level, call run_retry.
run(f) ==
    LET limit_opt == unwrap(config.limit)
    IN  /\ IF limit_opt.panic
           THEN /\ PanicWith(MsgMustHaveLimit)
                /\ UNCHANGED <<try_it, c, attempt_count, strategy, log>>
           ELSE /\ log' = Append(log, TraceLine)
                /\ \E overflow_checks \in BOOLEAN :
                       run_retry(limit_opt.opt, f, overflow_checks)
        /\ UNCHANGED <<config, timeout, outcomes, result, history,
                   sleep, checked, adapter, pair>>

\* RetryConfigWithTimeout::run
run_with_timeout(f) ==
    /\ pc = "RetryConfigWithTimeout"
    /\ run(f)

\* RetryConfigNoTimeout::run
run_no_timeout(f) ==
    /\ pc = "RetryConfigNoTimeout"
    /\ run(f)

\* A mutant of run_result: with a timeout every error is reported as
\* deadline-exceeded.
run_result_all_elapsed(tmo, r) ==
    IF tmo.some
    THEN (IF r.tag = "ErrInner" THEN ErrElapsed ELSE r)
    ELSE map_err_into_inner_unwrap(r)

\* What the session's future resolves with once Retry is over with r:
\* run_retry's final then() passes r on; RetryConfigNoTimeout::run then maps
\* the error with into_inner().unwrap().
run_result(tmo, r) ==
    IF tmo.some THEN r ELSE map_err_into_inner_unwrap(r)

\* The session is over with r.
finish(r) ==
    LET final == run_result(timeout, r)
    IN  IF final = Panic
        THEN PanicWith(MsgUnwrapNone) /\ UNCHANGED result
        ELSE /\ pc' = "done"
             /\ result' = final
             /\ UNCHANGED panic_msg

\* A mutant of retry_on: Retry goes on while delays remain, whatever the
\* closure returned.
retry_on_any(ctl, it) == has_next(it)

\* Retry's poll of a resolved attempt: Ok ends the loop, Err takes the next
\* delay from the strategy and sleeps, or ends the loop when there is none.
retry_on(ctl, it) == ctl = "Err" /\ has_next(it)

\* strategy.next() yields a delay: one element less is left, the backoff
\* moves on, and jitter is applied to the delay.
strategy_next ==
    /\ strategy' = next_it(strategy)
    /\ delays_taken' = delays_taken + 1
    /\ LET n == exponential_backoff_next(backoff)
       IN  /\ backoff' = n.current
           /\ \E ms \in jitter(n.duration) : delay' = Delay(n.duration, ms)

\* The attempt in flight resolves; the closure classifies it and Retry
\* decides what follows.
attempt_resolves ==
    /\ pc = "attempt"
    /\ \E rwt \in try_it_with_timeout(timeout, try_it[c], c) :
           LET a == attempt_then(rwt, config.condition, attempt_count,
                                 config.log_after)
           IN  /\ outcomes' = Append(outcomes, rwt)
               /\ log' = log \o a.lines
               /\ checked' = IF a.checked
                             THEN Append(checked, attempt_count) ELSE checked
               /\ IF a.ctl = "panic"
                  THEN /\ PanicWith(MsgTimerError)
                       /\ UNCHANGED <<result, strategy, sleep>>
                  ELSE IF retry_on(a.ctl, strategy)
                  THEN /\ pc' = "delay"
                       /\ strategy_next
                       /\ UNCHANGED <<result, panic_msg>>
                  ELSE finish(a.r) /\ UNCHANGED <<strategy, sleep>>
    /\ UNCHANGED <<config, timeout, try_it, c, attempt_count, history,
                   adapter, pair>>

\* A mutant of delay_elapses: the delay runs beside the attempt, and the
\* next attempt is started when it is over, resolved or not.
delay_elapses_early ==
    /\ pc \in {"attempt", "delay"}
    /\ c < MaxAttempts
    /\ start_attempt
    /\ delay' = NoDelay
    /\ UNCHANGED <<config, timeout, try_it, strategy, outcomes, result, log,
                   panic_msg, history, backoff, delays_taken, checked, adapter, pair>>

\* The backoff delay is over: Retry runs the closure for the next attempt.
delay_elapses ==
    /\ pc = "delay"
    /\ c < MaxAttempts
    /\ start_attempt
    /\ delay' = NoDelay
    /\ UNCHANGED <<config, timeout, try_it, strategy, outcomes, result, log,
                   panic_msg, history, backoff, delays_taken, checked, adapter, pair>>

\* The backoff delay's timer fails: RetryError::TimerError, which
\* run_retry's final then() turns into a panic.
delay_timer_error ==
    /\ pc = "delay"
    /\ PanicWith(MsgTimerError)
    /\ UNCHANGED <<config, timeout, driver, history,
                   sleep, checked, adapter, pair>>

Next ==
    \/ \E p \in Predicates : when(p)
    \/ \E n \in 1..MaxLogAfter : log_after(n)
    \/ no_logging
    \/ \E n \in 0..MaxLimit : limit(n)
    \/ no_limit
    \/ \E n \in TimeoutSecsInputs : timeout_secs(n)
    \/ \E n \in TimeoutMillisInputs : timeout_millis(n)
    \/ \E ms \in TimeoutInputs : timeout_duration(ms)
    \/ no_timeout
    \/ \E f \in Factories : run_with_timeout(f)
    \/ \E f \in Factories : run_no_timeout(f)
    \/ attempt_resolves
    \/ delay_elapses
    \/ delay_timer_error

Spec == Init /\ [][Next]_vars

\* The runtime keeps polling the session's future: an attempt that can
\* resolve does, and a backoff delay comes to its end unless its timer fails.
FairSpec ==
    /\ Init
    /\ [][Next]_vars
    /\ WF_vars(attempt_resolves)
    /\ WF_vars(delay_elapses)

(***************************************************************************)
(* The backoff iterator on its own: retry_strategy(limit_opt) for a limit  *)
(* of at least 1 or for no limit, and next() called on it again and again. *)
(***************************************************************************)
BackoffInit ==
    /\ pc = "strategy"
    /\ \E lim \in {Clear} \cup {Set(n) : n \in 1..(MaxDelays + 1)} :
           /\ config = [retry EXCEPT !.limit = lim]
           /\ strategy = retry_strategy(unwrap(lim).opt, TRUE).it
    /\ timeout = NoDuration
    /\ try_it = << >>
    /\ c = 0
    /\ attempt_count = 0
    /\ outcomes = << >>
    /\ result = NoResult
    /\ log = << >>
    /\ panic_msg = ""
    /\ limit_redecided = FALSE
    /\ log_decided = FALSE
    /\ log_redecided = FALSE
    /\ log_request = 1
    /\ timeout_decided = 0
    /\ backoff = backoff_base_ms
    /\ delay = NoDelay
    /\ delays_taken = 0
    /\ checked = << >>
    /\ AdapterIdle
    /\ pair = [i \in Sessions |-> IdleSession]

\* Iterator::next on the strategy, as long as it yields.
iterate ==
    /\ pc = "strategy"
    /\ has_next(strategy)
    /\ delays_taken < MaxDelays
    /\ strategy_next
    /\ UNCHANGED <<pc, config, timeout, try_it, c, attempt_count, outcomes,
                   result, log, panic_msg, history, checked, adapter, pair>>

BackoffNext == iterate

BackoffSpec == BackoffInit /\ [][BackoffNext]_vars

(***************************************************************************)
(* The blocking adapter on its own: blocking(f) is called, on a thread     *)
(* pool worker or not, and the future it returns is polled, on a worker or *)
(* not, until it resolves.                                                 *)
(***************************************************************************)
\* blocking(f): future::poll_fn(closure) is returned, nothing is polled.
blocking(fut, in_pool) ==
    /\ poll_fn = "none"
    /\ f_inner' = fut
    /\ poll_fn' = "created"
    /\ called_in_pool' = in_pool
    /\ UNCHANGED <<f_polls, poll_result, blocking_panic, session, pair>>

\* One poll of the returned future: the closure given to future::poll_fn.
poll(in_pool, capacity) ==
    /\ poll_fn \in {"created", "not_ready"}
    /\ LET b == tokio_threadpool_blocking(in_pool, capacity,
                                          f_poll(f_inner, f_polls))
           m == blocking_match(b)
       IN  /\ f_polls' = IF in_pool /\ capacity THEN f_polls + 1 ELSE f_polls
           /\ IF m.tag = "Panic"
              THEN /\ poll_fn' = "panicked"
                   /\ blocking_panic' = MsgNotInPool
                   /\ UNCHANGED poll_result
              ELSE IF m.tag = "Err"
              THEN /\ poll_fn' = "ready"
                   /\ poll_result' = m
                   /\ UNCHANGED blocking_panic
              ELSE IF m.v.tag = "NotReady"
              THEN /\ poll_fn' = "not_ready"
                   /\ UNCHANGED <<poll_result, blocking_panic>>
              ELSE /\ poll_fn' = "ready"
                   /\ poll_result' = Ok(m.v.v)
                   /\ UNCHANGED blocking_panic
    /\ UNCHANGED <<f_inner, called_in_pool, session, pair>>

BlockingNext ==
    \/ \E fut \in Futures, in_pool \in BOOLEAN : blocking(fut, in_pool)
    \/ \E in_pool, capacity \in BOOLEAN : poll(in_pool, capacity)

BlockingSpec == Init /\ [][BlockingNext]_vars

(***************************************************************************)
(* Two sessions side by side: each run_retry call has its own              *)
(* attempt_count, condition and strategy, moved into its own closure.      *)
(* Both run with the default condition and log_after, a timeout of one     *)
(* second and a limit of at least 1 or none; their steps interleave.       *)
(***************************************************************************)
PairTimeout == Duration(from_secs(1))

\* A mutant of attempt_count_next: one counter is shared by the sessions.
attempt_count_next_shared(ss, i) ==
    ss[1].attempt_count + ss[2].attempt_count + 1

\* attempt_count += 1 in the closure of session i.
attempt_count_next(ss, i) == ss[i].attempt_count + 1

\* Session i: run, up to the first invocation of the factory.
pair_run(i, lim) ==
    /\ pair[i].pc = "idle"
    /\ pair' = [pair EXCEPT ![i] =
                   [@ EXCEPT !.pc = "attempt",
                             !.limit = lim,
                             !.strategy =
                                 retry_strategy(unwrap(lim).opt, TRUE).it,
                             !.c = @ + 1,
                             !.attempt_count = attempt_count_next(pair, i)]]
    /\ UNCHANGED <<session, adapter>>

\* Session i: the attempt in flight resolves.
pair_attempt_resolves(i) ==
    /\ pair[i].pc = "attempt"
    /\ \E kind \in Kinds :
       \E rwt \in try_it_with_timeout(PairTimeout, kind, pair[i].c) :
           LET s == pair[i]
               a == attempt_then(rwt, retry.condition, s.attempt_count,
                                 retry.log_after)
           IN  pair' = [pair EXCEPT ![i] =
                   IF a.ctl = "panic"
                   THEN [s EXCEPT !.pc = "panicked",
                                  !.outcomes = Append(@, rwt)]
                   ELSE IF retry_on(a.ctl, s.strategy)
                   THEN [s EXCEPT !.pc = "delay",
                                  !.outcomes = Append(@, rwt),
                                  !.strategy = next_it(@),
                                  !.backoff =
                                      exponential_backoff_next(@).current]
                   ELSE [s EXCEPT !.pc = "done",
                                  !.outcomes = Append(@, rwt),
                                  !.result = run_result(PairTimeout, a.r)]]
    /\ UNCHANGED <<session, adapter>>

\* Session i: the backoff delay is over, the factory is invoked again.
pair_delay_elapses(i) ==
    /\ pair[i].pc = "delay"
    /\ pair[i].c < MaxAttempts
    /\ pair' = [pair EXCEPT ![i] =
                   [@ EXCEPT !.pc = "attempt",
                             !.c = @ + 1,
                             !.attempt_count = attempt_count_next(pair, i)]]
    /\ UNCHANGED <<session, adapter>>

PairNext ==
    \/ \E i \in Sessions, lim \in {Clear} \cup {Set(n) : n \in 1..MaxLimit} :
           pair_run(i, lim)
    \/ \E i \in Sessions : pair_attempt_resolves(i)
    \/ \E i \in Sessions : pair_delay_elapses(i)

PairSpec == Init /\ [][PairNext]_vars

(***************************************************************************)
(* Vocabulary of the properties.                                           *)
(***************************************************************************)
\* run was called and reached run_retry's first attempt.
Started == c >= 1
Last(seq) == seq[Len(seq)]
\* The attempt resolved with the operation's own value or error.
Completed(o) == o.tag \in {"Ok", "ErrInner"}
\* The factory's attempts 1..k all fail.
AllFail(k) == \A i \in 1..k : try_it[i] = "err"
\* The factory's attempts 1..n-1 fail and attempt n succeeds.
FirstSuccessAt(n) == AllFail(n - 1) /\ try_it[n] = "ok"
\* Every attempt of the factory succeeds.
AllOk == \A i \in 1..MaxAttempts : try_it[i] = "ok"
Min(a, b) == IF a <= b THEN a ELSE b

\* C1: with limit(L), L >= 1, no_timeout() and the default condition, a
\* factory that fails on every attempt is never invoked more than L times,
\* and when the session returns it has been invoked exactly L times and the
\* result is the L-th attempt's error.
C1_LimitReached ==
    \A L \in 1..MaxLimit :
        (Started /\ config.limit = Set(L) /\ ~timeout.some
                 /\ config.condition = "Error" /\ AllFail(L))
        => /\ c <= L
           /\ pc = "delay" => c < L
           /\ pc = "done" => c = L /\ result = Err(L)

C1_Witness ==
    /\ pc = "done" /\ config.limit = Set(3) /\ ~timeout.some
    /\ config.condition = "Error" /\ AllFail(3)
    /\ c = 3 /\ result = Err(3)

\* C2: with no_limit(), no_timeout() and the default condition, when the
\* factory's attempts 1..n-1 fail and attempt n succeeds, the session that
\* was started eventually returns Ok(n) after exactly n invocations of the
\* factory (or a backoff timer has failed, which panics).
C2_EventualSuccess ==
    \A n \in 1..MaxAttempts :
        (Started /\ config.limit = Clear /\ ~timeout.some
                 /\ config.condition = "Error" /\ FirstSuccessAt(n))
        ~> \/ pc = "done" /\ result = Ok(n) /\ c = n
           \/ pc = "panicked" /\ panic_msg = MsgTimerError

C2_Witness ==
    /\ pc = "done" /\ config.limit = Clear /\ ~timeout.some
    /\ config.condition = "Error" /\ FirstSuccessAt(3)
    /\ c = 3 /\ result = Ok(3)

\* C3: with limit(L) and the default condition, when the factory first
\* succeeds on attempt n < L, it is never invoked more than n times, and
\* when the session returns the result is Ok(n) after exactly n invocations.
C3_LimitNotReached ==
    \A L \in 1..MaxLimit : \A n \in 1..(L - 1) :
        (Started /\ config.limit = Set(L) /\ config.condition = "Error"
                 /\ FirstSuccessAt(n))
        => /\ c <= n
           /\ pc = "done" => c = n /\ result = Ok(n)

C3_Witness ==
    /\ pc = "done" /\ config.limit = Set(3) /\ config.condition = "Error"
    /\ FirstSuccessAt(2) /\ c = 2 /\ result = Ok(2)

\* C4: with a custom predicate p the retry decision of every completed
\* attempt is p(result): an attempt that was followed by another one had a
\* result p accepts for retry (or timed out), a session that returned on a
\* completed attempt although delays remained had a result p rejects, and a
\* factory returning Ok(k) on attempt k under p = "value < Threshold" with a
\* limit of at least Threshold ends in Ok(Threshold) after exactly Threshold
\* invocations.
C4_CustomWhen ==
    (Started /\ config.condition \in Predicates) =>
        /\ \A i \in 1..Len(outcomes) :
               (Completed(outcomes[i]) /\ (i < c \/ pc = "delay"))
               => predicate(config.condition,
                            map_err_into_inner_unwrap(outcomes[i]))
        /\ (pc = "done" /\ Completed(Last(outcomes)) /\ has_next(strategy))
           => ~predicate(config.condition,
                         map_err_into_inner_unwrap(Last(outcomes)))
        /\ (pc = "done" /\ config.condition = "ok_below" /\ AllOk
                /\ (config.limit = Clear
                    \/ (config.limit.tag = "Set" /\ config.limit.v >= Threshold)))
           => result = Ok(Threshold) /\ c = Threshold

C4_Witness ==
    /\ pc = "done" /\ config.condition = "ok_below" /\ AllOk
    /\ config.limit = Set(MaxLimit) /\ ~timeout.some
    /\ result = Ok(Threshold) /\ c = Threshold /\ Threshold >= 2

\* C5: whatever the retry condition, an attempt that exceeded its deadline
\* is retried while the backoff sequence has an element: right after it the
\* driver sleeps (or that delay's timer failed), and the session returns on
\* it only with the sequence exhausted.
C5_ElapsedAlwaysRetried ==
    (Started /\ Len(outcomes) = c /\ Last(outcomes) = ErrElapsed) =>
        /\ pc \in {"delay", "done", "panicked"}
        /\ pc = "done" => ~has_next(strategy) /\ result = ErrElapsed
        /\ pc = "panicked" => panic_msg = MsgTimerError

C5_Witness ==
    /\ Started /\ config.condition = "never" /\ Len(outcomes) = c
    /\ Last(outcomes) = ErrElapsed /\ pc = "delay"

\* C6: with a timeout, a session that returned has the result
\* deadline-exceeded exactly when its last attempt exceeded its deadline,
\* and then no delay remained; otherwise the result is the last attempt's
\* own Ok or inner error, never an earlier attempt's.
C6_TerminalResult ==
    (pc = "done" /\ timeout.some) =>
        /\ Len(outcomes) = c
        /\ result = ErrElapsed <=> Last(outcomes) = ErrElapsed
        /\ result = ErrElapsed => ~has_next(strategy)
        /\ result # ErrElapsed =>
               /\ result = Last(outcomes)
               /\ result \in {Ok(c), ErrInner(c)}

C6_Witness ==
    /\ pc = "done" /\ timeout.some /\ result = ErrElapsed /\ c = 2
    /\ outcomes[1] = ErrInner(1)

\* C7: with no_timeout() no attempt is classified as deadline-exceeded,
\* stripping the deadline wrapper never panics, and a session that returned
\* has the last attempt's own Ok or error as its result.
C7_NoTimeoutShape ==
    (Started /\ ~timeout.some) =>
        /\ \A i \in 1..Len(outcomes) : Completed(outcomes[i])
        /\ panic_msg # MsgUnwrapNone
        /\ pc = "done" =>
               /\ Len(outcomes) = c
               /\ result = map_err_into_inner_unwrap(Last(outcomes))
               /\ result \in {Ok(c), Err(c)}

C7_Witness ==
    /\ pc = "done" /\ ~timeout.some /\ result = Err(2) /\ c = 2
    /\ outcomes = <<ErrInner(1), ErrInner(2)>>

\* C8: a second limit decision (limit(n) or no_limit() on a configuration
\* whose limit is already decided) panics with the configure-once message,
\* whether or not the two calls agree, and no attempt was started.
C8_SecondLimitRejected ==
    limit_redecided =>
        /\ pc = "panicked"
        /\ panic_msg = MsgConfiguredOnce
        /\ c = 0 /\ attempt_count = 0

C8_Witness ==
    /\ limit_redecided /\ pc = "panicked" /\ config.limit = Set(2)

\* run was called: the driver is past the builder stages, or run itself
\* panicked.
RunCalled ==
    \/ pc \in {"attempt", "delay", "done"}
    \/ pc = "panicked" /\ panic_msg # MsgConfiguredOnce

\* C9: the driver only runs on a configuration with exactly one accepted
\* limit decision and one timeout decision, and run called on a
\* configuration whose limit was never decided panics without invoking the
\* factory.
C9_RunNeedsLimit ==
    /\ Started => config.limit # Unknown /\ ~limit_redecided
    /\ RunCalled => timeout_decided = 1
    /\ (RunCalled /\ config.limit = Unknown)
       => /\ pc = "panicked" /\ panic_msg = MsgMustHaveLimit
          /\ c = 0 /\ attempt_count = 0 /\ try_it = << >>

C9_Witness ==
    /\ pc = "panicked" /\ panic_msg = MsgMustHaveLimit
    /\ config.limit = Unknown /\ timeout.some /\ c = 0

\* C10 as stated: a log_after(n) or no_logging() call on a configuration
\* whose logging threshold was already decided is a fatal configuration
\* error.
C10_AsStated ==
    log_redecided => pc = "panicked" /\ panic_msg = MsgConfiguredOnce

\* C10 as amended: log_after(n) and no_logging() may be repeated; none of
\* these calls fails, the latest one decides the threshold, and without one
\* the threshold is 1.  The configure-once panic comes from the limit only.
C10_LastCallWins ==
    /\ log_decided => config.log_after = log_request
    /\ ~log_decided => config.log_after = 1
    /\ (pc = "panicked" /\ panic_msg = MsgConfiguredOnce) => limit_redecided

C10_Witness ==
    /\ log_redecided /\ pc = "done" /\ config.log_after = U64_MAX
    /\ log_request = U64_MAX

\* The attempts the log has a debug line for.
Logged == {log[i].attempt : i \in {j \in 1..Len(log) : log[j].level = "debug"}}
\* The elements of a sequence.
Range(seq) == {seq[i] : i \in 1..Len(seq)}

\* C11: a timer fault ends the session in a panic at once.  An attempt that
\* ended in a timer error is the last one, the retry condition was not
\* called for it and no retry was logged for it; after a timer panic, from
\* the attempt's timeout or from the backoff delay, no attempt is in flight
\* and no result was returned.
C11_TimerFaultFatal ==
    /\ \A i \in 1..Len(outcomes) :
           outcomes[i] = ErrTimer
           => /\ i = c /\ pc = "panicked" /\ panic_msg = MsgTimerError
              /\ i \notin Range(checked) /\ i \notin Logged
    /\ (pc = "panicked" /\ panic_msg = MsgTimerError)
       => /\ result = NoResult
          /\ Len(outcomes) = c
          /\ Last(outcomes) = ErrTimer \/ delay.sleeping

C11_Witness ==
    /\ pc = "panicked" /\ panic_msg = MsgTimerError /\ c = 2
    /\ outcomes = <<ErrInner(1), ErrTimer>> /\ result = NoResult
    /\ checked = <<1>>

\* The attempts of the session in flight: started and not resolved.
InFlight == c - Len(outcomes)

\* C12: the attempts of a session are sequential.  At most one attempt is
\* in flight, and exactly while the driver awaits it; attempt k is in flight
\* after k - 1 delays; and the factory is invoked again only from a delay the
\* driver sleeps on, with every earlier attempt resolved.
C12_Sequential ==
    /\ [](/\ InFlight \in {0, 1}
          /\ pc = "attempt" <=> InFlight = 1
          /\ pc = "attempt" => delays_taken = c - 1 /\ ~delay.sleeping
          /\ pc = "delay" => delays_taken = c /\ delay.sleeping)
    /\ [][(c' # c /\ c >= 1)
          => /\ c' = c + 1
             /\ pc = "delay" /\ delay.sleeping
             /\ Len(outcomes) = c /\ outcomes' = outcomes]_vars

C12_Witness ==
    /\ pc = "attempt" /\ c = 3 /\ Len(outcomes) = 2 /\ delays_taken = 2

\* C13: every delay the backoff yields is at most max_delay_ms (30000): the
\* k-th delay before jitter, k = 0, 1, .., is min(2 * 2^k, 30000) ms and
\* jitter does not raise it; with limit(L), L >= 1, the iterator yields
\* exactly L - 1 delays, and without a limit it always has a next one.
C13_BackoffCap ==
    /\ delay.sleeping =>
           /\ delay.duration
                  = Min(backoff_base_ms * Pow2(delays_taken - 1), max_delay_ms)
           /\ delay.ms <= delay.duration
           /\ delay.ms <= max_delay_ms
    /\ config.limit.tag = "Set" =>
           /\ delays_taken + strategy.left = config.limit.v - 1
           /\ ~has_next(strategy) <=> delays_taken = config.limit.v - 1
    /\ config.limit = Clear => has_next(strategy)

C13_Witness ==
    /\ pc = "strategy" /\ config.limit = Set(MaxDelays)
    /\ ~has_next(strategy) /\ delays_taken = MaxDelays - 1
    /\ delay = Delay(max_delay_ms, max_delay_ms)

\* The debug lines of the log.
DebugLines == {l \in Range(log) : l.level = "debug"}

\* C14: a debug retry line is logged for attempt k only if k is at least the
\* logging threshold in force (log_after), for timed-out attempts ("timed
\* out") and failed ones ("failed") alike; with the threshold of no_logging
\* no debug line is logged for any attempt.
C14_LogThreshold ==
    /\ \A l \in DebugLines :
           /\ l.attempt \in 1..Len(outcomes)
           /\ l.attempt >= config.log_after
           /\ l.attempt >= log_request
           /\ l.msg = "timed out" <=> outcomes[l.attempt] = ErrElapsed
           /\ l.msg = "failed" <=> Completed(outcomes[l.attempt])
    /\ log_request = U64_MAX => DebugLines = {}

C14_Witness ==
    /\ config.log_after = 2 /\ Len(outcomes) = 3
    /\ outcomes[1].tag = "ErrInner" /\ outcomes[2] = ErrElapsed
    /\ outcomes[3].tag = "ErrInner"
    /\ DebugLines = {LogLine("timed out", 2), LogLine("failed", 3)}

\* The retry condition's verdict on a completed attempt's outcome.
WantsRetry(o) == check(config.condition, map_err_into_inner_unwrap(o))
\* A completed attempt's outcome as the session's caller receives it: as it
\* is with a timeout, the inner error unwrapped without.
OwnResult(o) == IF timeout.some THEN o ELSE map_err_into_inner_unwrap(o)

\* C16: when the session returned although the retry condition asked for a
\* retry of the last, completed attempt, the backoff sequence is exhausted
\* and the result is that attempt's own: its inner error as the inner
\* error, its value as a success, never a deadline-exceeded error.
C16_ExhaustedOwnResult ==
    (/\ pc = "done"
     /\ Completed(Last(outcomes))
     /\ WantsRetry(Last(outcomes)))
    => /\ ~has_next(strategy)
       /\ result = OwnResult(Last(outcomes))
       /\ result.v = c
       /\ result.tag = (IF Last(outcomes).tag = "Ok" THEN "Ok"
                        ELSE IF timeout.some THEN "ErrInner" ELSE "Err")

C16_Witness ==
    /\ pc = "done" /\ config.condition = "ok_below" /\ config.limit = Set(2)
    /\ timeout.some /\ outcomes = <<ErrElapsed, Ok(2)>>
    /\ WantsRetry(Last(outcomes)) /\ result = Ok(2)

\* C17: the retry condition is evaluated once for every attempt that
\* completed with a value or an inner error, in the order of the attempts,
\* and never for an attempt that exceeded its deadline; it is evaluated for
\* the attempt in flight only, so before the next attempt starts.
C17_CheckedOncePerCompleted ==
    /\ [](/\ \A i \in 1..Len(outcomes) :
                 Completed(outcomes[i]) <=> i \in Range(checked)
          /\ Range(checked) \subseteq 1..Len(outcomes)
          /\ \A i, j \in 1..Len(checked) : i < j => checked[i] < checked[j])
    /\ [][checked' # checked
          => /\ pc = "attempt" /\ InFlight = 1
             /\ checked' = Append(checked, c)
             /\ c' = c /\ Completed(Last(outcomes'))]_vars

C17_Witness ==
    /\ outcomes = <<ErrInner(1), ErrElapsed, Ok(3)>>
    /\ checked = <<1, 3>> /\ pc = "done"

\* C18: every debug line announcing a retry for attempt k is followed by
\* attempt k + 1, so a session that returned has no such line for its final
\* attempt.
C18_AsStated ==
    pc = "done" => \A l \in DebugLines : l.attempt < c

\* C19: for every limit L that limit(n) accepts, 0 included, the factory is
\* never invoked more than L times in the session.
C19_AsStated ==
    (RunCalled /\ config.limit.tag = "Set") => c <= config.limit.v

\* The session ended in the panic a timer fault causes.
TimerFault == pc = "panicked" /\ panic_msg = MsgTimerError

\* C20: with limit(L), L >= 1, and a timeout per attempt, every session
\* that was started returns its result after at most L attempts, whatever
\* the operation does and also when it never completes, given that the
\* deadline and backoff timers fire; a timer fault ends it in a panic.
C20_TerminatesWithinLimit ==
    /\ [](Started /\ config.limit.tag = "Set" /\ config.limit.v >= 1
          => c <= config.limit.v)
    /\ (Started /\ config.limit.tag = "Set" /\ config.limit.v >= 1
        /\ timeout.some)
       ~> (pc = "done" \/ TimerFault)

C20_Witness ==
    /\ pc = "done" /\ timeout.some /\ config.limit = Set(MaxLimit)
    /\ \A i \in 1..MaxLimit : try_it[i] = "pending" /\ outcomes[i] = ErrElapsed
    /\ c = MaxLimit /\ result = ErrElapsed

\* C15: blocking(operation) invoked outside a thread pool worker panics at
\* the invocation: no future, pending or resolved, is returned to the caller.
C15_AsStated ==
    (poll_fn # "none" /\ ~called_in_pool) => poll_fn = "panicked"

\* The next poll of f resolves: f is past its not-ready polls.
FResolvesNext == f_polls = f_inner.not_ready

\* C22: on a thread pool worker blocking(f) preserves f's outcome.  The
\* returned future resolves exactly by the poll of f that resolves, with
\* that poll's value or error unchanged; a poll that leaves it pending
\* either did not poll f (no blocking capacity) or polled f while it was
\* not ready; and nothing is resolved without a poll of f.
C22_OutcomePreserved ==
    /\ [](/\ poll_fn = "ready"
             => /\ poll_result = f_inner.outcome
                /\ f_polls = f_inner.not_ready + 1
          /\ poll_fn # "ready"
             => /\ poll_result = NoResult
                /\ f_polls <= f_inner.not_ready)
    /\ [][/\ (poll_fn' = "not_ready" /\ poll_fn \in {"created", "not_ready"})
             => \/ f_polls' = f_polls
                \/ f_polls' = f_polls + 1 /\ ~FResolvesNext
          /\ f_polls' # f_polls
             => /\ f_polls' = f_polls + 1
                /\ FResolvesNext
                   <=> poll_fn' = "ready" /\ poll_result' = f_inner.outcome
          /\ poll_result' # poll_result => f_polls' = f_polls + 1]_vars

C22_Witness ==
    /\ poll_fn = "ready" /\ poll_result = Err(MaxValue)
    /\ f_inner = [not_ready |-> MaxNotReady, outcome |-> Err(MaxValue)]
    /\ f_polls = MaxNotReady + 1

\* One session run alone with limit lim, after its attempts resolved with
\* outs in this order: the attempt it is at, what is left of its strategy,
\* its result, and whether it is over.
AloneStart(lim) ==
    [over |-> FALSE, attempts |-> 1,
     strategy |-> retry_strategy(unwrap(lim).opt, TRUE).it,
     backoff |-> backoff_base_ms, result |-> NoResult]

AloneStep(st, rwt) ==
    LET a == attempt_then(rwt, retry.condition, st.attempts, retry.log_after)
    IN  IF a.ctl = "panic" THEN [st EXCEPT !.over = TRUE]
        ELSE IF retry_on(a.ctl, st.strategy)
        THEN [st EXCEPT !.attempts = @ + 1,
                        !.strategy = next_it(@),
                        !.backoff = exponential_backoff_next(@).current]
        ELSE [st EXCEPT !.over = TRUE,
                        !.result = run_result(PairTimeout, a.r)]

RECURSIVE Alone(_, _)
Alone(lim, outs) ==
    IF outs = << >> THEN AloneStart(lim)
    ELSE AloneStep(Alone(lim, SubSeq(outs, 1, Len(outs) - 1)), Last(outs))

====
